---- MODULE Spec2Model ----
(***************************************************************************)
(* The staged pipeline of src/run.ts: `run` drives runStage once per       *)
(* stage against a DataCollector; every stage body either returns a value, *)
(* calls skip() or throws.  The collaborators (getOptions, getCoverage,    *)
(* switchBranch, createReport, the report publishers, octokit) are opaque: *)
(* each call returns or throws, chosen nondeterministically.               *)
(***************************************************************************)
EXTENDS Integers, Sequences, FiniteSets, TLC

\* ------------------------------------------------------------------ bounds
\* Number of distinct failure causes a collaborator can throw.
MaxCauses ==
    1

\* Largest number of error records one getCoverage call writes itself to the
\* collector it is handed (its own inner stages), before returning or throwing.
MaxInnerErrors ==
    1

\* ------------------------------------------------------------------ values
Undefined ==
    [undefined |-> TRUE]

Causes ==
    1 .. MaxCauses

\* The cause of the TypeError raised by reading a property of undefined
\* (summaryReport!.runReport, summaryReport!.text): `!` is erased at run time.
TypeErrorCause ==
    0

\* JsonReport, reduced to what run.ts's collaborators derive from it: a
\* report with nothing to annotate, and one with a failed test and an
\* uncovered place.
JsonReports ==
    {[numFailedTests |-> n, uncovered |-> n] : n \in {0, 1}}

SkipSteps ==
    {"none", "install", "all"}

AnnotationOptions ==
    {"all", "none", "coverage", "failed-tests"}

BaseCoverageFiles ==
    {Undefined, [path |-> "base.json"]}

OptionsValues ==
    [baseCoverageFile : BaseCoverageFiles,
     skipStep : SkipSteps,
     annotations : AnnotationOptions]

\* shouldRunTestScript(options.skipStep), imported from typings/Options.
ShouldRunTestScript(skipStep) ==
    skipStep # "all"

\* context.payload.pull_request?.base.ref
BaseRefs ==
    {Undefined, [ref |-> "main"]}

SummaryReports ==
    {[text |-> "report", runReport |-> "run"]}

\* JavaScript truthiness of the optional values of this model.
Truthy(v) ==
    v # Undefined

\* ------------------------------------------------------- DataCollector
CreateDataCollector ==
    [errors |-> <<>>, data |-> <<>>]

ErrorRecord(stage, cause) ==
    [stage |-> stage, cause |-> cause]

\* addError(stage, cause): appends one record, nothing else changes.
AddError(collector, stage, cause) ==
    [collector EXCEPT !.errors = Append(@, ErrorRecord(stage, cause))]

\* add(partial): field-wise merge, last write wins; the error list is kept.
Add(collector, partial) ==
    [collector EXCEPT !.data =
        [f \in (DOMAIN @) \cup (DOMAIN partial) |->
            IF f \in DOMAIN partial THEN partial[f] ELSE @[f]]]

\* get(): the accumulated state.
Get(collector) ==
    collector

\* ------------------------------------------------------------ runStage
\* What a stage body did: returned a value, called skip(), or threw.
Return(v) ==
    [kind |-> "return", value |-> v]

Skip ==
    [kind |-> "skip"]

Throw(c) ==
    [kind |-> "throw", cause |-> c]

NoSignal ==
    [kind |-> "none"]

\* Mutant of RunStage: the catch treats every exception like the skip signal.
RunStageThrowAsSkip(name, collector, sig) ==
    [completed |-> (sig.kind = "return"),
     value     |-> IF sig.kind = "return" THEN sig.value ELSE Undefined,
     collector |-> collector]

\* runStage(name, collector, body) once the body has ended with `sig`:
\* the pair (completed, value) and the collector as runStage leaves it.
RunStage(name, collector, sig) ==
    [completed |-> (sig.kind = "return"),
     value     |-> IF sig.kind = "return" THEN sig.value ELSE Undefined,
     collector |-> IF sig.kind = "throw"
                   THEN AddError(collector, name, sig.cause)
                   ELSE collector]

\* -------------------------------------------------------- collaborators
\* One external call, as recorded in the call log.
Call(fn, arg) ==
    [fn |-> fn, arg |-> arg]

\* `collector` after a callee appended n error records of its own to it.
RECURSIVE AddInnerErrors(_, _)
AddInnerErrors(collector, n) ==
    IF n = 0
    THEN collector
    ELSE AddInnerErrors(AddError(collector, "collectCoverage", MaxCauses), n - 1)

\* getCoverage(collector, options, coverageFile): it may record errors of its
\* own inner stages on the collector it is handed, and then it returns a
\* JsonReport or throws.
GetCoverage(collector) ==
    {[collector |-> AddInnerErrors(collector, n), signal |-> s] :
        n \in 0 .. MaxInnerErrors,
        s \in {Return(r) : r \in JsonReports} \cup {Throw(e) : e \in Causes}}

\* createFailedTestsAnnotations(headCoverage).length
FailedTestsAnnotationsLength(report) ==
    report.numFailedTests

\* createCoverageAnnotations(headCoverage).length
CoverageAnnotationsLength(report) ==
    report.uncovered

\* ------------------------------------------------------------- state
VARIABLES
    pc,                       \* the stage `run` is at, or how it ended
    phase,                    \* "body": runStage is about to run the body;
                              \* "settle": the body ended, runStage settles
    isInPR,                   \* context.eventName === 'pull_request'
    baseRef,                  \* context.payload.pull_request?.base.ref
    dataCollector,            \* the main accumulator
    ignoreCollector,          \* the disposable accumulator
    options,
    isInitialized,
    isHeadCoverageGenerated,
    headCoverage,
    isSwitched,
    baseCoverage,
    isReportContentGenerated,
    summaryReport,
    signal,                   \* how the body in progress ended
    outcome,                  \* the pair the last runStage call returned
    frame,                    \* the runStage call in progress, as entered
    calls,                    \* log of the external calls made so far
    started,                  \* the stages started so far, in order
    ended,                    \* how the body of each started stage ended
    setFailedCalled           \* setFailed(i18n('failed')) was called

vars ==
    <<pc, phase, isInPR, baseRef, dataCollector, ignoreCollector, options,
      isInitialized, isHeadCoverageGenerated, headCoverage, isSwitched,
      baseCoverage, isReportContentGenerated, summaryReport, signal, outcome,
      frame, calls, started, ended, setFailedCalled>>

Init ==
    /\ pc = "initialize"
    /\ phase = "body"
    /\ isInPR \in BOOLEAN
    /\ baseRef \in BaseRefs
    /\ dataCollector = CreateDataCollector
    /\ ignoreCollector = Undefined
    /\ options = Undefined
    /\ isInitialized = FALSE
    /\ isHeadCoverageGenerated = FALSE
    /\ headCoverage = Undefined
    /\ isSwitched = FALSE
    /\ baseCoverage = Undefined
    /\ isReportContentGenerated = FALSE
    /\ summaryReport = Undefined
    /\ signal = NoSignal
    /\ outcome = <<FALSE, Undefined>>
    /\ frame = [name |-> "", collector |-> "", errorsBefore |-> <<>>,
                errorsAfterBody |-> <<>>, callsBefore |-> <<>>]
    /\ calls = <<>>
    /\ started = <<>>
    /\ ended = <<>>
    /\ setFailedCalled = FALSE

\* runStage(name, <collector>, body) is entered and the body runs until it
\* returns, skips or throws: `result` is what the body did (its signal, the
\* external calls it made, and the main collector as it left it).
EnterStage(name, collector, result) ==
    /\ pc = name
    /\ phase = "body"
    /\ phase' = "settle"
    /\ started' = Append(started, name)
    /\ ended' = Append(ended, result.signal.kind)
    /\ frame' = [name |-> name, collector |-> collector,
                 errorsBefore |-> dataCollector.errors,
                 errorsAfterBody |-> result.main.errors,
                 callsBefore |-> calls]
    /\ signal' = result.signal
    /\ calls' = calls \o result.calls
    /\ dataCollector' = result.main
    /\ UNCHANGED <<outcome, isInPR, baseRef, setFailedCalled, options,
                   isInitialized, isHeadCoverageGenerated, headCoverage,
                   isSwitched, baseCoverage, isReportContentGenerated,
                   summaryReport, pc>>

\* runStage returns to `run`, which goes on to the stage `next`.
LeaveStage(name, o, next) ==
    /\ pc = name
    /\ phase = "settle"
    /\ outcome' = <<o.completed, o.value>>
    /\ pc' = next
    /\ phase' = IF next \in {"threw", "finalCheck"} THEN "none" ELSE "body"
    /\ UNCHANGED <<signal, calls, started, ended, frame, isInPR, baseRef,
                   setFailedCalled>>

\* A body's result: its signal, the calls it made, the main collector after.
Result(sig, made, main) ==
    [signal |-> sig, calls |-> made, main |-> main]

\* One call of an external function that takes no collector: it returns v
\* or throws.
CallOutcomes(v) ==
    {Return(v)} \cup {Throw(e) : e \in Causes}

\* -------------------------------------------------------------- initialize
\* The body is getOptions itself, which is handed skip as its argument.
InitializeBody ==
    {Result(s, <<Call("getOptions", Undefined)>>, dataCollector) :
        s \in {Return(o) : o \in OptionsValues \cup {Undefined}}
              \cup {Skip} \cup {Throw(e) : e \in Causes}}

\* Mutant of InitializationFailed: the null check on options is inverted.
InitializationFailedInverted(initialized, opts) ==
    ~initialized \/ Truthy(opts)

\* Mutant of InitializationFailed: only the completed flag is tested.
InitializationFailedNoNullCheck(initialized, opts) ==
    ~initialized

\* if (!isInitialized || !options) throw Error('Initialization failed.')
InitializationFailed(initialized, opts) ==
    ~initialized \/ ~Truthy(opts)

Body_initialize ==
    /\ pc = "initialize"
    /\ phase = "body"
    /\ \E r \in InitializeBody : EnterStage("initialize", "dataCollector", r)
    /\ UNCHANGED ignoreCollector

\* Mutant of Settle_initialize: the failed initialization is not escalated.
Settle_initializeNoAbort ==
    LET o == RunStage("initialize", dataCollector, signal) IN
    /\ LeaveStage("initialize", o, "headCoverage")
    /\ dataCollector' = o.collector
    /\ isInitialized' = o.completed
    /\ options' = o.value
    /\ UNCHANGED <<ignoreCollector, isHeadCoverageGenerated, headCoverage,
                   isSwitched, baseCoverage, isReportContentGenerated,
                   summaryReport>>

Settle_initialize ==
    LET o == RunStage("initialize", dataCollector, signal) IN
    /\ LeaveStage("initialize", o,
                  IF InitializationFailed(o.completed, o.value)
                  THEN "threw" ELSE "headCoverage")
    /\ dataCollector' = o.collector
    /\ isInitialized' = o.completed
    /\ options' = o.value
    /\ UNCHANGED <<ignoreCollector, isHeadCoverageGenerated, headCoverage,
                   isSwitched, baseCoverage, isReportContentGenerated,
                   summaryReport>>

\* ------------------------------------------------------------ headCoverage
HeadCoverageBody ==
    {Result(g.signal, <<Call("getCoverage", [collector |-> "dataCollector"])>>,
            g.collector) : g \in GetCoverage(dataCollector)}

\* !options.baseCoverageFile && shouldRunTestScript(options.skipStep)
InvokesSwitchToBase(opts) ==
    ~Truthy(opts.baseCoverageFile) /\ ShouldRunTestScript(opts.skipStep)

\* Mutant of AddIfDefined: the value is added to a fresh collector, which
\* replaces the accumulated one.
AddIfDefinedFresh(collector, value) ==
    IF Truthy(value) THEN Add(CreateDataCollector, value) ELSE collector

\* Mutant of AddIfDefined: the value replaces the accumulated fields instead
\* of being merged into them.
AddIfDefinedReplace(collector, value) ==
    IF Truthy(value) THEN [collector EXCEPT !.data = value] ELSE collector

\* if (value) dataCollector.add(value)
AddIfDefined(collector, value) ==
    IF Truthy(value) THEN Add(collector, value) ELSE collector

Body_headCoverage ==
    /\ pc = "headCoverage"
    /\ phase = "body"
    /\ \E r \in HeadCoverageBody : EnterStage("headCoverage", "dataCollector", r)
    /\ UNCHANGED ignoreCollector

\* Mutant of Settle_headCoverage: isSwitched starts out false.
Settle_headCoverageNotSwitched ==
    LET o == RunStage("headCoverage", dataCollector, signal) IN
    /\ LeaveStage("headCoverage", o,
                  IF InvokesSwitchToBase(options)
                  THEN "switchToBase" ELSE "baseCoverage")
    /\ isHeadCoverageGenerated' = o.completed
    /\ headCoverage' = o.value
    /\ dataCollector' = AddIfDefined(o.collector, o.value)
    /\ isSwitched' = FALSE
    /\ ignoreCollector' = IF InvokesSwitchToBase(options)
                          THEN ignoreCollector ELSE CreateDataCollector
    /\ UNCHANGED <<options, isInitialized, baseCoverage,
                   isReportContentGenerated, summaryReport>>

Settle_headCoverage ==
    LET o == RunStage("headCoverage", dataCollector, signal) IN
    /\ LeaveStage("headCoverage", o,
                  IF InvokesSwitchToBase(options)
                  THEN "switchToBase" ELSE "baseCoverage")
    /\ isHeadCoverageGenerated' = o.completed
    /\ headCoverage' = o.value
    /\ dataCollector' = AddIfDefined(o.collector, o.value)
    /\ isSwitched' = TRUE
    /\ ignoreCollector' = IF InvokesSwitchToBase(options)
                          THEN ignoreCollector ELSE CreateDataCollector
    /\ UNCHANGED <<options, isInitialized, baseCoverage,
                   isReportContentGenerated, summaryReport>>

\* ------------------------------------------------------------ switchToBase
\* Mutant of SwitchToBaseBody: the skip check comes after the switchBranch call.
SwitchToBaseBodySkipLate ==
    IF ~isInPR \/ ~Truthy(baseRef)
    THEN {Result(Skip, <<Call("switchBranch", baseRef)>>, dataCollector)}
    ELSE {Result(s, <<Call("switchBranch", baseRef)>>, dataCollector) :
            s \in CallOutcomes(Undefined)}

\* Mutant of SwitchToBaseBody: skips only when both conditions fail.
SwitchToBaseBodyAnd ==
    IF ~isInPR /\ ~Truthy(baseRef)
    THEN {Result(Skip, <<>>, dataCollector)}
    ELSE {Result(s, <<Call("switchBranch", baseRef)>>, dataCollector) :
            s \in CallOutcomes(Undefined)}

SwitchToBaseBody ==
    IF ~isInPR \/ ~Truthy(baseRef)
    THEN {Result(Skip, <<>>, dataCollector)}
    ELSE {Result(s, <<Call("switchBranch", baseRef)>>, dataCollector) :
            s \in CallOutcomes(Undefined)}

Body_switchToBase ==
    /\ pc = "switchToBase"
    /\ phase = "body"
    /\ \E r \in SwitchToBaseBody : EnterStage("switchToBase", "dataCollector", r)
    /\ UNCHANGED ignoreCollector

Settle_switchToBase ==
    LET o == RunStage("switchToBase", dataCollector, signal) IN
    /\ LeaveStage("switchToBase", o, "baseCoverage")
    /\ isSwitched' = o.completed
    /\ dataCollector' = o.collector
    /\ ignoreCollector' = CreateDataCollector
    /\ UNCHANGED <<options, isInitialized, isHeadCoverageGenerated,
                   headCoverage, baseCoverage, isReportContentGenerated,
                   summaryReport>>

\* ------------------------------------------------------------ baseCoverage
\* Mutant of BaseCoverageBody: getCoverage is handed the main collector.
BaseCoverageBodyMainCollector ==
    IF ~isSwitched
    THEN {[result |-> Result(Skip, <<>>, dataCollector), ignore |-> ignoreCollector]}
    ELSE {[result |-> Result(g.signal,
                             <<Call("getCoverage", [collector |-> "dataCollector"])>>,
                             g.collector),
           ignore |-> ignoreCollector] : g \in GetCoverage(dataCollector)}

\* Mutant of BaseCoverageBody: the body does not look at isSwitched.
BaseCoverageBodyNoSkipCheck ==
    {[result |-> Result(g.signal,
                        <<Call("getCoverage", [collector |-> "ignoreCollector"])>>,
                        dataCollector),
      ignore |-> g.collector] : g \in GetCoverage(ignoreCollector)}

\* The body hands getCoverage the disposable collector; `ignore` is that
\* collector as getCoverage left it.
BaseCoverageBody ==
    IF ~isSwitched
    THEN {[result |-> Result(Skip, <<>>, dataCollector), ignore |-> ignoreCollector]}
    ELSE {[result |-> Result(g.signal,
                             <<Call("getCoverage", [collector |-> "ignoreCollector"])>>,
                             dataCollector),
           ignore |-> g.collector] : g \in GetCoverage(ignoreCollector)}

Body_baseCoverage ==
    /\ pc = "baseCoverage"
    /\ phase = "body"
    /\ \E b \in BaseCoverageBody :
           /\ EnterStage("baseCoverage", "dataCollector", b.result)
           /\ ignoreCollector' = b.ignore

Settle_baseCoverage ==
    LET o == RunStage("baseCoverage", dataCollector, signal) IN
    /\ LeaveStage("baseCoverage", o, "generateReportContent")
    /\ baseCoverage' = o.value
    /\ dataCollector' = AddIfDefined(o.collector, o.value)
    /\ UNCHANGED <<ignoreCollector, options, isInitialized,
                   isHeadCoverageGenerated, headCoverage, isSwitched,
                   isReportContentGenerated, summaryReport>>

\* --------------------------------------------------- generateReportContent
\* createReport(dataCollector, options) reads the collector.
GenerateReportContentBody ==
    {Result(s, <<Call("createReport", [collector |-> "dataCollector"])>>,
            dataCollector) :
        s \in {Return(r) : r \in SummaryReports} \cup {Throw(e) : e \in Causes}}

Body_generateReportContent ==
    /\ pc = "generateReportContent"
    /\ phase = "body"
    /\ \E r \in GenerateReportContentBody :
           EnterStage("generateReportContent", "dataCollector", r)
    /\ UNCHANGED ignoreCollector

\* Mutant of Settle_generateReportContent: a failed report generation is
\* tried once more.
Settle_generateReportContentRetry ==
    LET o == RunStage("generateReportContent", dataCollector, signal) IN
    /\ LeaveStage("generateReportContent", o,
                  IF ~o.completed /\ Len(dataCollector.errors) = 0
                  THEN "generateReportContent" ELSE "publishReport")
    /\ isReportContentGenerated' = o.completed
    /\ summaryReport' = o.value
    /\ dataCollector' = o.collector
    /\ UNCHANGED <<ignoreCollector, options, isInitialized,
                   isHeadCoverageGenerated, headCoverage, isSwitched,
                   baseCoverage>>

Settle_generateReportContent ==
    LET o == RunStage("generateReportContent", dataCollector, signal) IN
    /\ LeaveStage("generateReportContent", o, "publishReport")
    /\ isReportContentGenerated' = o.completed
    /\ summaryReport' = o.value
    /\ dataCollector' = o.collector
    /\ UNCHANGED <<ignoreCollector, options, isInitialized,
                   isHeadCoverageGenerated, headCoverage, isSwitched,
                   baseCoverage>>

\* ----------------------------------------------------------- publishReport
\* Reading a property of summaryReport: a TypeError when it is undefined,
\* otherwise the rest of the body, `rest`, goes on.
ReadSummaryReport(made, rest) ==
    IF ~Truthy(summaryReport)
    THEN {Result(Throw(TypeErrorCause), made, dataCollector)}
    ELSE rest

\* Mutant of PublishReportBody: the body does not look at
\* isReportContentGenerated and hands on whatever summaryReport holds.
PublishReportBodyNoGuard ==
    {Result(s, <<Call("getOctokit", Undefined),
                 Call(IF isInPR THEN "generatePRReport"
                                ELSE "generateCommitReport",
                      summaryReport)>>,
            dataCollector) : s \in CallOutcomes(Undefined)}

PublishReportBody ==
    IF ~isReportContentGenerated
    THEN {Result(Skip, <<>>, dataCollector)}
    ELSE ReadSummaryReport(<<Call("getOctokit", Undefined)>>,
           {Result(s, <<Call("getOctokit", Undefined),
                        Call(IF isInPR THEN "generatePRReport"
                                       ELSE "generateCommitReport",
                             summaryReport)>>,
                   dataCollector) : s \in CallOutcomes(Undefined)})

Body_publishReport ==
    /\ pc = "publishReport"
    /\ phase = "body"
    /\ \E r \in PublishReportBody : EnterStage("publishReport", "dataCollector", r)
    /\ UNCHANGED ignoreCollector

Settle_publishReport ==
    LET o == RunStage("publishReport", dataCollector, signal) IN
    /\ LeaveStage("publishReport", o, "failedTestsAnnotations")
    /\ dataCollector' = o.collector
    /\ UNCHANGED <<ignoreCollector, options, isInitialized,
                   isHeadCoverageGenerated, headCoverage, isSwitched,
                   baseCoverage, isReportContentGenerated, summaryReport>>

\* -------------------------------------------------- failedTestsAnnotations
\* Mutant of FailedTestsAnnotationsBody: the head-coverage flag is not tested,
\* so an undefined head coverage is handed on and dereferenced.
FailedTestsAnnotationsBodyNoHeadCheck ==
    IF options.annotations \notin {"all", "failed-tests"}
    THEN {Result(Skip, <<>>, dataCollector)}
    ELSE LET made == <<Call("createFailedTestsAnnotations", headCoverage)>> IN
         IF ~Truthy(headCoverage)
         THEN {Result(Throw(TypeErrorCause), made, dataCollector)}
         ELSE IF FailedTestsAnnotationsLength(headCoverage) = 0
         THEN {Result(Skip, made, dataCollector)}
         ELSE ReadSummaryReport(made \o <<Call("getOctokit", Undefined)>>,
                {Result(s, made \o <<Call("getOctokit", Undefined),
                                     Call("checks.create", headCoverage)>>,
                        dataCollector) : s \in CallOutcomes(Undefined)})

FailedTestsAnnotationsBody ==
    IF ~isHeadCoverageGenerated \/ options.annotations \notin {"all", "failed-tests"}
    THEN {Result(Skip, <<>>, dataCollector)}
    ELSE LET made == <<Call("createFailedTestsAnnotations", headCoverage)>> IN
         IF FailedTestsAnnotationsLength(headCoverage) = 0
         THEN {Result(Skip, made, dataCollector)}
         ELSE ReadSummaryReport(made \o <<Call("getOctokit", Undefined)>>,
                {Result(s, made \o <<Call("getOctokit", Undefined),
                                     Call("checks.create", headCoverage)>>,
                        dataCollector) : s \in CallOutcomes(Undefined)})

Body_failedTestsAnnotations ==
    /\ pc = "failedTestsAnnotations"
    /\ phase = "body"
    /\ \E r \in FailedTestsAnnotationsBody :
           EnterStage("failedTestsAnnotations", "dataCollector", r)
    /\ UNCHANGED ignoreCollector

Settle_failedTestsAnnotations ==
    LET o == RunStage("failedTestsAnnotations", dataCollector, signal) IN
    /\ LeaveStage("failedTestsAnnotations", o, "coverageAnnotations")
    /\ dataCollector' = o.collector
    /\ UNCHANGED <<ignoreCollector, options, isInitialized,
                   isHeadCoverageGenerated, headCoverage, isSwitched,
                   baseCoverage, isReportContentGenerated, summaryReport>>

\* ----------------------------------------------------- coverageAnnotations
CoverageAnnotationsBody ==
    IF ~isHeadCoverageGenerated \/ options.annotations \notin {"all", "coverage"}
    THEN {Result(Skip, <<>>, dataCollector)}
    ELSE LET made == <<Call("createCoverageAnnotations", headCoverage)>> IN
         IF CoverageAnnotationsLength(headCoverage) = 0
         THEN {Result(Skip, made, dataCollector)}
         ELSE {Result(s, made \o <<Call("getOctokit", Undefined),
                                   Call("checks.create", headCoverage)>>,
                      dataCollector) : s \in CallOutcomes(Undefined)}

Body_coverageAnnotations ==
    /\ pc = "coverageAnnotations"
    /\ phase = "body"
    /\ \E r \in CoverageAnnotationsBody :
           EnterStage("coverageAnnotations", "dataCollector", r)
    /\ UNCHANGED ignoreCollector

Settle_coverageAnnotations ==
    LET o == RunStage("coverageAnnotations", dataCollector, signal) IN
    /\ LeaveStage("coverageAnnotations", o, "finalCheck")
    /\ dataCollector' = o.collector
    /\ UNCHANGED <<ignoreCollector, options, isInitialized,
                   isHeadCoverageGenerated, headCoverage, isSwitched,
                   baseCoverage, isReportContentGenerated, summaryReport>>

\* -------------------------------------------------------------- final check
\* Mutant of ShouldSetFailed: the length test is off by one.
ShouldSetFailedOffByOne(collector) ==
    Len(Get(collector).errors) > 1

\* Mutant of ShouldSetFailed: the disposable collector's errors count too.
ShouldSetFailedAnyCollector(collector) ==
    \/ Len(Get(collector).errors) > 0
    \/ Truthy(ignoreCollector) /\ Len(Get(ignoreCollector).errors) > 0

\* Mutant of ShouldSetFailed: >= instead of >.
ShouldSetFailedAlways(collector) ==
    Len(Get(collector).errors) >= 0

\* if (dataCollector.get().errors.length > 0) setFailed(i18n('failed'))
ShouldSetFailed(collector) ==
    Len(Get(collector).errors) > 0

FinalCheck ==
    /\ pc = "finalCheck"
    /\ pc' = "returned"
    /\ setFailedCalled' = ShouldSetFailed(dataCollector)
    /\ UNCHANGED <<phase, isInPR, baseRef, dataCollector, ignoreCollector,
                   options, isInitialized, isHeadCoverageGenerated,
                   headCoverage, isSwitched, baseCoverage,
                   isReportContentGenerated, summaryReport, signal, outcome,
                   frame, calls, started, ended>>

Next ==
    \/ Body_initialize
    \/ Settle_initialize
    \/ Body_headCoverage
    \/ Settle_headCoverage
    \/ Body_switchToBase
    \/ Settle_switchToBase
    \/ Body_baseCoverage
    \/ Settle_baseCoverage
    \/ Body_generateReportContent
    \/ Settle_generateReportContent
    \/ Body_publishReport
    \/ Settle_publishReport
    \/ Body_failedTestsAnnotations
    \/ Settle_failedTestsAnnotations
    \/ Body_coverageAnnotations
    \/ Settle_coverageAnnotations
    \/ FinalCheck

Spec ==
    Init /\ [][Next]_vars

\* Every stage body terminates and the single thread of `run` is always
\* scheduled: whatever step is enabled is eventually taken.
FairSpec ==
    Spec /\ WF_vars(Next)

\* ------------------------------------------------- dataCollector.add alone
\* Largest number of add calls made in a row on one collector.
MaxAdds ==
    2

\* Names and values of partial-result fields.
Fields ==
    {"a", "b"}

FieldValues ==
    {1, 2}

\* The partial-result objects over Fields.
Partials ==
    UNION {[D -> FieldValues] : D \in SUBSET Fields}

\* A collector with any partial results and with or without an error record;
\* `calls` logs the partials added to it since and `frame` keeps it as it was.
AddInit ==
    /\ pc = "add"
    /\ phase = "none"
    /\ isInPR = FALSE
    /\ baseRef = Undefined
    /\ dataCollector \in
           {[errors |-> e, data |-> d] :
               e \in {<<>>, <<ErrorRecord("headCoverage", MaxCauses)>>},
               d \in Partials}
    /\ ignoreCollector = Undefined
    /\ options = Undefined
    /\ isInitialized = FALSE
    /\ isHeadCoverageGenerated = FALSE
    /\ headCoverage = Undefined
    /\ isSwitched = FALSE
    /\ baseCoverage = Undefined
    /\ isReportContentGenerated = FALSE
    /\ summaryReport = Undefined
    /\ signal = NoSignal
    /\ outcome = <<FALSE, Undefined>>
    /\ frame = [name |-> "add", collector |-> dataCollector,
                errorsBefore |-> dataCollector.errors,
                errorsAfterBody |-> dataCollector.errors, callsBefore |-> <<>>]
    /\ calls = <<>>
    /\ started = <<>>
    /\ ended = <<>>
    /\ setFailedCalled = FALSE

\* if (partial) dataCollector.add(partial), for any partial.
AddPartial ==
    /\ pc = "add"
    /\ Len(calls) < MaxAdds
    /\ \E p \in Partials :
           /\ dataCollector' = AddIfDefined(dataCollector, p)
           /\ calls' = Append(calls, Call("add", p))
    /\ UNCHANGED <<pc, phase, isInPR, baseRef, ignoreCollector, options,
                   isInitialized, isHeadCoverageGenerated, headCoverage,
                   isSwitched, baseCoverage, isReportContentGenerated,
                   summaryReport, signal, outcome, frame, started, ended,
                   setFailedCalled>>

AddNext ==
    AddPartial

AddSpec ==
    AddInit /\ [][AddNext]_vars

\* ======================================================================
\* Properties
\* ======================================================================
IsPrefix(s, t) ==
    /\ Len(s) <= Len(t)
    /\ SubSeq(t, 1, Len(s)) = s

\* The last runStage call has returned to `run` (and no later body has ended).
StageSettled ==
    frame.name # "" /\ phase # "settle"

\* The external calls made by the body of the last stage entered.
CallsOfStage ==
    SubSeq(calls, Len(frame.callsBefore) + 1, Len(calls))

Errors ==
    Get(dataCollector).errors

StagesWithError ==
    {Errors[i].stage : i \in DOMAIN Errors}

RunEnded ==
    pc \in {"returned", "threw"}

InitOK ==
    isInitialized /\ Truthy(options)

\* ---------------------------------------------------------------------- C1
\* C1 as stated: every run, however it ends (also when initialize does not
\* complete), ends with setFailed called iff the main error list is non-empty.
C1_FailedIffErrors ==
    RunEnded => (setFailedCalled <=> Len(Errors) > 0)

\* C1 amended: a run that passes initialization ends with setFailed called
\* iff the main error list is non-empty, and setFailed is called nowhere
\* else; a run whose initialize stage does not complete (or yields no
\* options) ends by throwing, without calling setFailed, whatever its error
\* list holds.
C1_FailedIffErrorsAfterInit ==
    /\ pc = "returned" => (InitOK /\ (setFailedCalled <=> Len(Errors) > 0))
    /\ pc # "returned" => ~setFailedCalled
    /\ pc = "threw" => ~InitOK

C1_Witness ==
    pc = "returned" /\ setFailedCalled /\ Len(Errors) > 0 /\ isReportContentGenerated

\* ---------------------------------------------------------------------- C2
\* C2: a stage body that throws makes runStage return (false, undefined) to
\* its caller and append exactly one record {stage: name, cause} to the
\* collector it was given, after whatever the body left there; the
\* disposable collector, which no runStage call of run is given, gets none.
C2_ThrowRecordedOnce ==
    (StageSettled /\ signal.kind = "throw") =>
        /\ outcome = <<FALSE, Undefined>>
        /\ frame.collector = "dataCollector"
        /\ Errors = Append(frame.errorsAfterBody,
                           ErrorRecord(frame.name, signal.cause))
        /\ Truthy(ignoreCollector) =>
               \A i \in DOMAIN ignoreCollector.errors :
                   ignoreCollector.errors[i].stage # frame.name
        /\ (frame.name # "initialize") => pc # "threw"

C2_Witness ==
    /\ StageSettled
    /\ signal.kind = "throw"
    /\ frame.name = "generateReportContent"
    /\ Len(frame.errorsAfterBody) > 0

\* ---------------------------------------------------------------------- C3
\* Calls that run.ts places after a skip() call of the same body.
PlacedAfterSkip ==
    {"switchBranch", "getCoverage", "getOctokit", "generatePRReport",
     "generateCommitReport", "checks.create"}

\* C3: a stage body that calls skip() makes runStage return (false,
\* undefined) with the main error list as it was before the call, and
\* nothing placed after the skip() call has run: none of the calls that
\* follow a skip() was made, and an annotation list was built only when the
\* first skip() of the body was passed.
C3_SkipAbortsWithoutError ==
    (StageSettled /\ signal.kind = "skip") =>
        /\ outcome = <<FALSE, Undefined>>
        /\ Errors = frame.errorsBefore
        /\ \A i \in DOMAIN CallsOfStage : CallsOfStage[i].fn \notin PlacedAfterSkip
        /\ (frame.name = "initialize") \/ (CallsOfStage = <<>>) \/
               /\ isHeadCoverageGenerated
               /\ Len(CallsOfStage) = 1
               /\ frame.name = "failedTestsAnnotations" =>
                      options.annotations \in {"all", "failed-tests"}
               /\ frame.name = "coverageAnnotations" =>
                      options.annotations \in {"all", "coverage"}

C3_Witness ==
    /\ StageSettled
    /\ signal.kind = "skip"
    /\ frame.name = "switchToBase"
    /\ Len(Errors) > 0

\* ---------------------------------------------------------------------- C4
\* C4 as stated: a body that returns v makes runStage return (true, v) and
\* leaves the main error list as it was before the call.
C4_ReturnLeavesErrors ==
    (StageSettled /\ signal.kind = "return") =>
        /\ outcome = <<TRUE, signal.value>>
        /\ Errors = frame.errorsBefore

\* C4 amended: a body that returns v makes runStage return (true, v), and
\* runStage itself adds no error record: the list after the call is the
\* list as the body left it.  Only the headCoverage body, which hands the
\* main collector to getCoverage, can have extended it.
C4_ReturnAddsNoError ==
    (StageSettled /\ signal.kind = "return") =>
        /\ outcome = <<TRUE, signal.value>>
        /\ Errors = frame.errorsAfterBody
        /\ IsPrefix(frame.errorsBefore, Errors)
        /\ (frame.name # "headCoverage") => Errors = frame.errorsBefore

C4_Witness ==
    /\ StageSettled
    /\ signal.kind = "return"
    /\ frame.name = "baseCoverage"
    /\ Truthy(outcome[2])
    /\ Len(ignoreCollector.errors) > 0

\* ---------------------------------------------------------------------- C5
InitializeThrew ==
    "initialize" \in StagesWithError

\* C5: when the initialize stage throws, run aborts right after it: no
\* other stage is ever started and run ends by throwing.
C5_InitThrowAborts ==
    InitializeThrew =>
        /\ pc = "threw"
        /\ started = <<"initialize">>
        /\ \A i \in DOMAIN calls : calls[i].fn = "getOptions"

C5_Witness ==
    InitializeThrew /\ pc = "threw" /\ Len(started) = 1

\* ---------------------------------------------------------------------- C6
GenerateReportThrew ==
    "generateReportContent" \in StagesWithError

\* No collaborator but createReport failed: every record a collaborator's
\* failure left is the generateReportContent one, on either collector.
OnlyReportGenerationFailed ==
    /\ \A i \in DOMAIN Errors :
           Errors[i].cause \in Causes => Errors[i].stage = "generateReportContent"
    /\ Truthy(ignoreCollector) => ignoreCollector.errors = <<>>

\* C6 as stated: when report generation throws and no other collaborator
\* fails, the run ends with exactly one error record, tagged
\* generateReportContent, publishReport having skipped, and setFailed called.
C6_ReportFailureAloneGivesOneError ==
    (pc = "returned" /\ GenerateReportThrew /\ OnlyReportGenerationFailed) =>
        /\ Len(Errors) = 1
        /\ Errors[1].stage = "generateReportContent"
        /\ \A i \in DOMAIN calls :
               calls[i].fn \notin {"generatePRReport", "generateCommitReport"}
        /\ setFailedCalled

\* ---------------------------------------------------------------------- C7
\* C7 as stated: as long as no stage other than baseCoverage has left an
\* error record, the main error list is empty and setFailed is not called,
\* also when base coverage collection failed.
C7_BaseCoverageNeverFailsRun ==
    (StagesWithError \subseteq {"baseCoverage"}) =>
        (Errors = <<>> /\ ~setFailedCalled)

\* ---------------------------------------------------------------------- C8
PastBaseCoverage ==
    pc \in {"generateReportContent", "publishReport", "failedTestsAnnotations",
            "coverageAnnotations", "finalCheck", "returned"}

\* Scenario C: switchToBase and baseCoverage both skip, nothing of the base
\* branch is collected or added, and neither stage leaves an error record.
BaseCoverageSkipped ==
    /\ (frame.name \in {"switchToBase", "baseCoverage"} /\ StageSettled) =>
           (signal = Skip /\ outcome = <<FALSE, Undefined>>)
    /\ PastBaseCoverage =>
           /\ \E i \in DOMAIN started : started[i] = "switchToBase"
           /\ ~isSwitched
           /\ baseCoverage = Undefined
           /\ \A i \in DOMAIN calls :
                  calls[i] # Call("getCoverage", [collector |-> "ignoreCollector"])
           /\ ignoreCollector = CreateDataCollector
           /\ Get(dataCollector).data = AddIfDefined(CreateDataCollector, headCoverage).data
           /\ StagesWithError \cap {"switchToBase", "baseCoverage"} = {}

\* C8 as stated: outside a pull request and without a base branch, whatever
\* the options are.
C8_NoBaseOutsidePR ==
    (InitOK /\ ~isInPR /\ ~Truthy(baseRef)) => BaseCoverageSkipped

\* C8 amended: outside a pull request and without a base branch, and with
\* options that make run invoke switchToBase (no baseCoverageFile, and
\* shouldRunTestScript(skipStep)).
C8_NoBaseOutsidePRWhenSwitching ==
    (InitOK /\ ~isInPR /\ ~Truthy(baseRef) /\ InvokesSwitchToBase(options)) =>
        BaseCoverageSkipped

C8_Witness ==
    /\ InitOK /\ ~isInPR /\ ~Truthy(baseRef) /\ InvokesSwitchToBase(options)
    /\ frame.name = "baseCoverage" /\ StageSettled /\ signal = Skip
    /\ options.skipStep = "install"

\* ---------------------------------------------------------------------- C9
\* C9: once initialize has completed with defined options, run never ends by
\* throwing and always returns, which it does only from its final check; a
\* run that ends by throwing started no stage but initialize.
C9_ReachesFinalCheck ==
    /\ [](InitOK => pc # "threw")
    /\ [](pc = "threw" => started = <<"initialize">>)
    /\ (InitOK ~> (pc = "returned"))
    /\ [][pc' = "returned" => pc = "finalCheck"]_vars

C9_Witness ==
    /\ pc = "returned"
    /\ Cardinality(StagesWithError \cap
                   {"headCoverage", "baseCoverage", "generateReportContent",
                    "failedTestsAnnotations", "coverageAnnotations"}) >= 3

\* --------------------------------------------------------------------- C10
\* C10: in every step the main error list before the step is a prefix of
\* the list after it.
C10_ErrorsOnlyGrow ==
    [][IsPrefix(Errors, Errors')]_vars

C10_Witness ==
    /\ pc = "returned"
    /\ Len(Errors) >= 3
    /\ Truthy(baseCoverage)
    /\ Truthy(headCoverage)

\* --------------------------------------------------------------------- C11
\* The order in which run.ts calls runStage.
StageOrder ==
    <<"initialize", "headCoverage", "switchToBase", "baseCoverage",
      "generateReportContent", "publishReport", "failedTestsAnnotations",
      "coverageAnnotations">>

StageIndex(name) ==
    CHOOSE i \in DOMAIN StageOrder : StageOrder[i] = name

\* The stages started so far are the first stages of StageOrder, in that
\* order, with only switchToBase possibly left out.
StartedInOrder ==
    /\ \A i \in DOMAIN started :
           \E k \in DOMAIN StageOrder : StageOrder[k] = started[i]
    /\ \A i, j \in DOMAIN started :
           i < j => StageIndex(started[i]) < StageIndex(started[j])
    /\ \A i \in DOMAIN started : \A k \in 1 .. (StageIndex(started[i]) - 1) :
           (StageOrder[k] # "switchToBase") =>
               \E j \in 1 .. (i - 1) : started[j] = StageOrder[k]

\* The stages whose body has ended and whose runStage call has returned.
NumFinished ==
    Len(ended) - (IF phase = "settle" THEN 1 ELSE 0)

\* C11: stages start in the fixed order (switchToBase only when invoked),
\* each at most once, and a stage starts only when every stage started
\* before it has finished, so that at most one stage is in progress.
C11_StagesInOrderOneAtATime ==
    /\ [](StartedInOrder /\ Len(started) - NumFinished \in {0, 1})
    /\ [][started' # started =>
            /\ NumFinished = Len(started)
            /\ started' = Append(started, pc)]_vars

C11_Witness ==
    /\ pc = "returned"
    /\ Len(started) = 8
    /\ "publishReport" \in StagesWithError

\* --------------------------------------------------------------------- C12
\* Every stage body started so far has returned: none threw, none skipped.
AllBodiesCompleted ==
    \A i \in DOMAIN ended : ended[i] = "return"

\* C12 as stated: a run in which initialize and every later stage body
\* complete ends with an empty main error list and without setFailed.
C12_AllCompleteNoErrors ==
    (pc = "returned" /\ AllBodiesCompleted) =>
        (Errors = <<>> /\ ~setFailedCalled)

\* C12 amended: in such a run runStage has put no record on the main error
\* list; the list holds only what getCoverage itself recorded on the main
\* collector during headCoverage, and when that is nothing the list is
\* empty and setFailed is not called.
C12_AllCompleteNoStageErrors ==
    AllBodiesCompleted =>
        /\ \A i \in DOMAIN Errors :
               \A k \in DOMAIN StageOrder : Errors[i].stage # StageOrder[k]
        /\ ("headCoverage" \notin {started[i] : i \in DOMAIN started}) =>
               Errors = <<>>
        /\ pc = "returned" =>
               /\ setFailedCalled <=> "collectCoverage" \in StagesWithError
               /\ ("collectCoverage" \notin StagesWithError) => Errors = <<>>

C12_Witness ==
    /\ pc = "returned"
    /\ AllBodiesCompleted
    /\ Len(started) = 8
    /\ Errors = <<>>
    /\ ~setFailedCalled

\* --------------------------------------------------------------------- C13
\* The add calls, by position in the log, that wrote field f.
WritersOf(f) ==
    {i \in DOMAIN calls : f \in DOMAIN calls[i].arg}

LastWriterOf(f) ==
    CHOOSE i \in WritersOf(f) : \A j \in WritersOf(f) : j <= i

\* C13: after any sequence of add calls every field holds the value of the
\* last partial that had it, a field no partial had holds what it held
\* before, no other field exists, and the error list is as it was; add of
\* two partials with disjoint fields commutes and add of the same partial
\* twice equals adding it once.
C13_AddIsLastWriteWinsMerge ==
    (pc = "add") =>
        LET data == Get(dataCollector).data
            before == frame.collector.data
        IN
        /\ DOMAIN data =
               (DOMAIN before) \cup UNION {DOMAIN calls[i].arg : i \in DOMAIN calls}
        /\ \A f \in DOMAIN data :
               data[f] = IF WritersOf(f) # {}
                         THEN calls[LastWriterOf(f)].arg[f]
                         ELSE before[f]
        /\ Get(dataCollector).errors = frame.collector.errors
        /\ \A p, q \in Partials :
               /\ Add(Add(dataCollector, p), p) = Add(dataCollector, p)
               /\ (DOMAIN p \cap DOMAIN q = {}) =>
                      Add(Add(dataCollector, p), q) = Add(Add(dataCollector, q), p)

C13_Witness ==
    /\ pc = "add"
    /\ Len(calls) = 2
    /\ DOMAIN calls[1].arg = {"a", "b"}
    /\ DOMAIN calls[2].arg = {"a"}
    /\ calls[1].arg["a"] # calls[2].arg["a"]
    /\ "b" \notin DOMAIN frame.collector.data
    /\ Len(Errors) = 1

\* --------------------------------------------------------------------- C14
\* C14: a step that writes to the disposable collector leaves the main
\* collector, error list and partial results, as it was, and the final
\* decision depends on the main error list alone: a run whose main list is
\* empty ends without setFailed whatever the disposable collector holds.
C14_DisposableIsolated ==
    /\ [][(Truthy(ignoreCollector) /\ ignoreCollector' # ignoreCollector) =>
              dataCollector' = dataCollector]_vars
    /\ [](pc = "returned" => (setFailedCalled <=> Errors # <<>>))
    /\ [](Truthy(baseCoverage) =>
              Get(dataCollector).data = Add(CreateDataCollector, baseCoverage).data)

C14_Witness ==
    /\ pc = "returned"
    /\ Len(ignoreCollector.errors) > 0
    /\ Errors = <<>>
    /\ ~setFailedCalled

\* --------------------------------------------------------------------- C15
SwitchBranchCalls ==
    {i \in DOMAIN calls : calls[i].fn = "switchBranch"}

\* C15: switchBranch is only ever called in a pull-request run whose base ref
\* is defined, with that base ref, from the switchToBase body, at most once;
\* a switchToBase body that skipped made no call at all.
C15_SwitchBranchOnlyInPRWithBase ==
    /\ \A i \in SwitchBranchCalls :
          /\ isInPR
          /\ Truthy(baseRef)
          /\ calls[i].arg = baseRef
          /\ "switchToBase" \in {started[k] : k \in DOMAIN started}
    /\ Cardinality(SwitchBranchCalls) <= 1
    /\ (StageSettled /\ frame.name = "switchToBase" /\ signal = Skip) =>
          /\ ~isInPR \/ ~Truthy(baseRef)
          /\ CallsOfStage = <<>>
    /\ (StageSettled /\ frame.name = "switchToBase" /\ signal # Skip) =>
          SwitchBranchCalls # {}

\* A pull-request event without a base ref reached switchToBase and skipped.
C15_Witness ==
    /\ StageSettled
    /\ frame.name = "switchToBase"
    /\ isInPR
    /\ ~Truthy(baseRef)
    /\ signal = Skip

\* --------------------------------------------------------------------- C16
AnnotationStages ==
    {"failedTestsAnnotations", "coverageAnnotations"}

\* The headCoverage stage was entered and its body ran to its end.
HeadCoverageCompleted ==
    \E i \in DOMAIN started : started[i] = "headCoverage" /\ ended[i] = "return"

\* The annotations option selects the stage.
Selects(name) ==
    options.annotations \in
        (IF name = "failedTestsAnnotations" THEN {"all", "failed-tests"}
                                            ELSE {"all", "coverage"})

\* The number of annotations the stage would publish for a head coverage.
AnnotationsLength(name, report) ==
    IF name = "failedTestsAnnotations" THEN FailedTestsAnnotationsLength(report)
                                       ELSE CoverageAnnotationsLength(report)

\* The body of the last stage skipped: no checks.create, no error record.
SelfSkipped ==
    /\ signal = Skip
    /\ \A i \in DOMAIN CallsOfStage : CallsOfStage[i].fn # "checks.create"
    /\ Errors = frame.errorsBefore

\* C16: an annotation stage that runs after a headCoverage stage that did
\* not complete, or that the annotations option does not select, skips with
\* no call at all (so no read of the undefined head coverage), no
\* checks.create and no error record; one that has zero annotations skips
\* after computing them, with no checks.create and no error record.
C16_AnnotationStagesSelfSkip ==
    (StageSettled /\ frame.name \in AnnotationStages) =>
        /\ (~HeadCoverageCompleted \/ ~Selects(frame.name)) =>
              SelfSkipped /\ CallsOfStage = <<>>
        /\ (HeadCoverageCompleted /\ Selects(frame.name)
              /\ AnnotationsLength(frame.name, headCoverage) = 0) =>
              SelfSkipped
        /\ \A i \in DOMAIN CallsOfStage : CallsOfStage[i].arg # Undefined
               \/ CallsOfStage[i].fn = "getOctokit"
        /\ HeadCoverageCompleted <=> isHeadCoverageGenerated

\* The last annotation stage skipped after a headCoverage stage that threw,
\* although the option selects both stages.
C16_Witness ==
    /\ StageSettled
    /\ frame.name = "coverageAnnotations"
    /\ ~HeadCoverageCompleted
    /\ options.annotations = "all"
    /\ signal = Skip
    /\ "failedTestsAnnotations" \notin StagesWithError

\* --------------------------------------------------------------------- C17
\* The switchToBase stage was entered in this run.
SwitchToBaseInvoked ==
    \E i \in DOMAIN started : started[i] = "switchToBase"

\* The switchToBase stage was entered and its body ran to its end.
SwitchToBaseCompleted ==
    \E i \in DOMAIN started : started[i] = "switchToBase" /\ ended[i] = "return"

\* The baseCoverage body called getCoverage with the disposable collector.
BaseCoverageCollected ==
    \E i \in DOMAIN calls :
        calls[i] = Call("getCoverage", [collector |-> "ignoreCollector"])

\* C17: once the baseCoverage body has run, base coverage was collected
\* exactly when switchToBase was not invoked or was invoked and completed;
\* switchToBase is invoked exactly when no baseCoverageFile is configured
\* and the test-script step is not skipped, whether in a pull request or not.
C17_BaseCollectedIffSwitched ==
    /\ (Len(started) >= 3) =>
          (SwitchToBaseInvoked <=> InvokesSwitchToBase(options))
    /\ PastBaseCoverage =>
          /\ BaseCoverageCollected <=>
                (~SwitchToBaseInvoked \/ SwitchToBaseCompleted)
          /\ (SwitchToBaseInvoked /\ ~SwitchToBaseCompleted) =>
                baseCoverage = Undefined
    /\ ~PastBaseCoverage /\ ~(pc = "baseCoverage" /\ phase = "settle") =>
          ~BaseCoverageCollected

\* Outside a pull request, with switchToBase not invoked, base coverage was
\* collected and the stage completed.
C17_Witness ==
    /\ PastBaseCoverage
    /\ ~isInPR
    /\ ~SwitchToBaseInvoked
    /\ BaseCoverageCollected
    /\ Truthy(baseCoverage)

\* --------------------------------------------------------------------- C18
\* The initialize stage has returned to run.
InitializeSettled ==
    Len(started) >= 1 /\ ~(pc = "initialize" /\ phase = "settle")

\* C18: a stage after initialize is started only when initialize completed
\* with defined options, which stay as they are for the rest of the run; an
\* initialize stage that returned undefined, skipped or threw makes run throw
\* with no later stage started, no call but getOptions and no setFailed.
C18_LaterStagesHaveOptions ==
    /\ [](Len(started) >= 2 =>
            /\ InitOK
            /\ options \in OptionsValues
            /\ ended[1] = "return")
    /\ []((InitializeSettled /\ ~InitOK) =>
            /\ pc = "threw"
            /\ started = <<"initialize">>
            /\ \A i \in DOMAIN calls : calls[i].fn = "getOptions"
            /\ ~setFailedCalled)
    /\ []((InitializeSettled /\ InitOK) => pc # "threw")
    /\ [][Len(started) >= 1 /\ pc # "initialize" => options' = options]_vars

\* getOptions returned undefined: the stage completed, and run threw.
C18_Witness ==
    /\ pc = "threw"
    /\ isInitialized
    /\ ~Truthy(options)
    /\ ended = <<"return">>
    /\ Errors = <<>>

\* --------------------------------------------------------------------- C19
\* The calls that publish a report.
PublishCalls ==
    {i \in DOMAIN calls :
        calls[i].fn \in {"generatePRReport", "generateCommitReport"}}

\* The generateReportContent stage was entered and its body ran to its end.
ReportContentCompleted ==
    \E i \in DOMAIN started :
        started[i] = "generateReportContent" /\ ended[i] = "return"

PublishReportSettled ==
    \/ StageSettled /\ frame.name = "publishReport"
    \/ pc \in {"failedTestsAnnotations", "coverageAnnotations",
               "finalCheck", "returned"}

C19_NothingPublishedReached ==
    /\ pc = "returned"
    /\ ~isReportContentGenerated
    /\ PublishCalls = {}

====
